---- MODULE Spec2Model ----
(***************************************************************************)
(* Model of the $lazy dispatcher, jsDollarLazy, of                          *)
(* src/bun.js/bindings/JS2Native.cpp.                                       *)
(*                                                                         *)
(* A call carries one JSValue.  A negative Int32 indexes the generated     *)
(* table js2nativePointers at -id - 1 with no bounds check; 1, 2 and 4     *)
(* select one of the three hand-written stream-source loaders; anything    *)
(* else reaches CRASH_WITH_INFO.  The process is shared by several         *)
(* execution contexts; a crash ends all of them.                           *)
(***************************************************************************)
EXTENDS Integers, Sequences, FiniteSets, TLC

----------------------------------------------------------------------------
(* Bounds of the model *)

\* Largest length of the generated pointer table.
MaxTable == 2

\* Number of execution contexts that call the dispatcher.
NumContexts == 2

\* Largest non-negative token passed by a call site (covers every tag).
MaxToken == 5

----------------------------------------------------------------------------
(* enum ReadableStreamTag *)

Invalid == -1
JavaScript == 0
Blob == 1
File == 2
Direct == 3
Bytes == 4

----------------------------------------------------------------------------
(* Values *)

Contexts == 1..NumContexts

\* Int32 tokens of the model: one index past the largest table up to MaxToken.
Tokens == (-(MaxTable + 1))..MaxToken

\* The native function the generator placed at index i (zero-based): the
\* table has one entry per lazy binding.
GeneratedFn(i) == <<"generated", i>>

\* What a call through a pointer read past the end of the table may return.
GarbageBits == {0, 99}

\* JSValues a call site can pass: Int32 tokens and one value that is no Int32.
Int32Value(t) == [tag |-> "Int32", payload |-> t]
NotInt32Value == [tag |-> "Cell", payload |-> 0]
NoArg == [tag |-> "NoArg", payload |-> 0]
Args == {Int32Value(t) : t \in Tokens} \cup {NotInt32Value}

NoFn == [kind |-> "none", index |-> -1, loader |-> "none"]

\* The record of a context that has not called the dispatcher yet.
Idle == [arg |-> NoArg, decoded |-> FALSE, id |-> 0, tableRead |-> FALSE,
         invoked |-> NoFn, outcome |-> "idle", ret |-> 0, diag |-> "none"]

VARIABLES
    build,   \* "debug" (BUN_DEBUG) or "release"
    table,   \* JS2NativeGenerated::js2nativePointers
    state,   \* "Dispatching" or "Halted"
    call     \* per context: the last call of jsDollarLazy and what it did

vars == <<build, table, state, call>>

----------------------------------------------------------------------------
(* JSValue helpers *)

isInt32(v) == v.tag = "Int32"

\* asInt32 reads the payload bits; for a value that is no Int32 these are
\* whatever the encoding holds, any Int32.
asInt32(v) == IF isInt32(v) THEN {v.payload} ELSE Tokens

\* JSValue::encode: the 64-bit encoding of a JSValue.
encode(v) == v.u

\* The JSValue a generated native function returns (deterministic entries).
NativeCall(fn) == [u |-> 10 + fn[2]]

\* The EncodedJSValue a loader returns (deterministic loaders).
LoaderCall(fn) ==
    CASE fn = "ByteBlob__JSReadableStreamSource__load" -> 21
      [] fn = "FileReader__JSReadableStreamSource__load" -> 22
      [] fn = "ByteStream__JSReadableStreamSource__load" -> 24

----------------------------------------------------------------------------
(* jsDollarLazy, piece by piece *)

\* #if BUN_DEBUG ... ASSERT_WITH_MESSAGE(target.isInt32(), ...)
ShapeCheckOff(bld) == FALSE
ShapeCheckEnabled(bld) == bld = "debug"

\* -id - 1
TableIndexOffByOne(id) == -id
TableIndexSticky(id) ==
    IF \E c \in Contexts : call[c].tableRead /\ call[c].outcome = "returned"
    THEN 0 ELSE -id - 1
TableIndex(id) == -id - 1

\* if (LIKELY(id < 0)) return encode(js2nativePointers[-id - 1](global));
\* The read is unchecked: past the end it is undefined behaviour, a fault or
\* a call through whatever the memory holds.
TableRoute(tbl, id) ==
    LET idx == TableIndex(id) IN
    IF idx >= 0 /\ idx < Len(tbl)
    THEN {[decoded |-> TRUE, id |-> id, tableRead |-> TRUE,
           invoked |-> [kind |-> "table", index |-> idx, loader |-> "none"],
           outcome |-> "returned", ret |-> encode(NativeCall(tbl[idx + 1])),
           diag |-> "none"]}
    ELSE {[decoded |-> TRUE, id |-> id, tableRead |-> TRUE,
           invoked |-> NoFn, outcome |-> "segfault", ret |-> 0,
           diag |-> "none"]}
         \cup
         {[decoded |-> TRUE, id |-> id, tableRead |-> TRUE,
           invoked |-> [kind |-> "wild", index |-> idx, loader |-> "none"],
           outcome |-> "returned", ret |-> g, diag |-> "none"]
            : g \in GarbageBits}

\* The case labels of switch (id).
DispatchedTagsWithDirect == {Blob, File, Direct, Bytes}
DispatchedTags == {Blob, File, Bytes}

\* The loader each case returns.
LoaderForSwapped(id) ==
    CASE id = Blob -> "FileReader__JSReadableStreamSource__load"
      [] id = File -> "ByteBlob__JSReadableStreamSource__load"
      [] OTHER -> "ByteStream__JSReadableStreamSource__load"
LoaderFor(id) ==
    CASE id = Blob -> "ByteBlob__JSReadableStreamSource__load"
      [] id = File -> "FileReader__JSReadableStreamSource__load"
      [] OTHER -> "ByteStream__JSReadableStreamSource__load"

TagRoute(id) ==
    {[decoded |-> TRUE, id |-> id, tableRead |-> FALSE,
      invoked |-> [kind |-> "loader", index |-> -1, loader |-> LoaderFor(id)],
      outcome |-> "returned", ret |-> LoaderCall(LoaderFor(id)),
      diag |-> "none"]}

\* The message of CRASH_WITH_INFO: chosen by #if BUN_DEBUG, not by the token.
CrashMessageSame(bld) == "mistake in the code generator"
CrashMessage(bld) ==
    IF bld = "debug" THEN "mistake in the code generator"
                     ELSE "bug in Bun or handle to internal code"

FailurePath(bld, id) ==
    {[decoded |-> TRUE, id |-> id, tableRead |-> FALSE, invoked |-> NoFn,
      outcome |-> "crash", ret |-> 0, diag |-> CrashMessage(bld)]}

Route(bld, tbl, id) ==
    IF id < 0 THEN TableRoute(tbl, id)
    ELSE IF id \in DispatchedTags THEN TagRoute(id)
    ELSE FailurePath(bld, id)

AssertionFailure ==
    [decoded |-> FALSE, id |-> 0, tableRead |-> FALSE, invoked |-> NoFn,
     outcome |-> "assertion", ret |-> 0, diag |-> "expected Int32"]

\* Every way one call with argument a can end.
Outcomes(bld, tbl, a) ==
    IF ShapeCheckEnabled(bld) /\ ~isInt32(a)
    THEN {AssertionFailure}
    ELSE UNION {Route(bld, tbl, id) : id \in asInt32(a)}

\* What a context keeps of a call: the argument and how the call ended.
CallRecord(a, o) ==
    [arg |-> a, decoded |-> o.decoded, id |-> o.id, tableRead |-> o.tableRead,
     invoked |-> o.invoked, outcome |-> o.outcome, ret |-> o.ret,
     diag |-> o.diag]

Returned(o) == o.outcome = "returned"

\* A crash, a fault or a failed assertion ends the process.
ProcessAliveAlways == TRUE
ProcessAlive == state = "Dispatching"

\* The dispatcher only reads js2nativePointers.
js2nativePointersRebound ==
    table' = [table EXCEPT ![1] = table[Len(table)]]
js2nativePointersUnchanged == table' = table

----------------------------------------------------------------------------
(* Specification *)

Init ==
    /\ build \in {"debug", "release"}
    /\ \E n \in 1..MaxTable : table = [i \in 1..n |-> GeneratedFn(i - 1)]
    /\ state = "Dispatching"
    /\ call = [c \in Contexts |-> Idle]

jsDollarLazy(c, a) ==
    /\ ProcessAlive
    /\ \E o \in Outcomes(build, table, a) :
        /\ call' = [call EXCEPT ![c] = CallRecord(a, o)]
        /\ state' = IF Returned(o) THEN state ELSE "Halted"
    /\ js2nativePointersUnchanged
    /\ UNCHANGED build

Next == \E c \in Contexts, a \in Args : jsDollarLazy(c, a)

Spec == Init /\ [][Next]_vars

----------------------------------------------------------------------------
(* Properties *)

\* The two valid domains of a token: an index into the table, or a tag
\* with a loader.
ValidToken(tbl, id) ==
    \/ id < 0 /\ -id - 1 < Len(tbl)
    \/ id \in {Blob, File, Bytes}

\* The calls that decoded their argument to a token.
Decoded(c) == call[c].outcome # "idle" /\ call[c].decoded

Halting == {"crash", "segfault", "assertion"}

\* C1: a negative token t with 0 <= -t-1 < N invokes exactly the table entry
\* at index -t-1 (t = -1 invokes entry 0), invokes no loader, and returns
\* the encoding of that entry's result.
C1_TableDispatch ==
    \A c \in Contexts :
        (Decoded(c) /\ call[c].id < 0 /\ -call[c].id - 1 < Len(table)) =>
            /\ call[c].outcome = "returned"
            /\ call[c].invoked =
                 [kind |-> "table", index |-> -call[c].id - 1, loader |-> "none"]
            /\ call[c].ret = encode(NativeCall(table[-call[c].id]))
            /\ (call[c].id = -1 => call[c].invoked.index = 0)

C1_Witness ==
    /\ \E c \in Contexts : Decoded(c) /\ call[c].id = -1 /\ call[c].outcome = "returned"
    /\ \E c \in Contexts : Decoded(c) /\ call[c].id = -2 /\ call[c].invoked.kind = "table"

\* C2: a token equal to Blob, File or Bytes invokes exactly the blob, file or
\* byte-stream loader, returns that loader's result, and never reads the
\* pointer table.
C2_TagDispatch ==
    \A c \in Contexts :
        (Decoded(c) /\ call[c].id \in {1, 2, 4}) =>
            /\ call[c].outcome = "returned"
            /\ call[c].invoked.kind = "loader"
            /\ call[c].invoked.loader =
                 (CASE call[c].id = 1 -> "ByteBlob__JSReadableStreamSource__load"
                    [] call[c].id = 2 -> "FileReader__JSReadableStreamSource__load"
                    [] call[c].id = 4 -> "ByteStream__JSReadableStreamSource__load")
            /\ call[c].ret = LoaderCall(call[c].invoked.loader)
            /\ ~call[c].tableRead

C2_Witness ==
    \E c1, c2 \in Contexts :
        /\ Decoded(c1) /\ call[c1].id = Blob /\ call[c1].invoked.kind = "loader"
        /\ Decoded(c2) /\ call[c2].id = Bytes /\ call[c2].invoked.kind = "loader"

\* C3: a token outside both valid domains, a negative token past the end of
\* the table included, halts the process, returns nothing and invokes no
\* native function.
C3_InvalidTokenHalts ==
    \A c \in Contexts :
        (Decoded(c) /\ ~ValidToken(table, call[c].id)) =>
            /\ call[c].outcome \in Halting
            /\ state = "Halted"
            /\ call[c].invoked = NoFn

\* C4 as stated: the tokens JavaScript = 0, Direct = 3 and Invalid = -1 all
\* reach the failure path: a crash with a diagnostic, nothing invoked.
C4_PlaceholdersAndInvalidCrash ==
    \A c \in Contexts :
        (Decoded(c) /\ call[c].id \in {JavaScript, Direct, Invalid}) =>
            /\ call[c].outcome = "crash"
            /\ call[c].diag # "none"
            /\ call[c].invoked = NoFn
            /\ ~call[c].tableRead

\* C4 amended: the tokens JavaScript = 0 and Direct = 3 reach the failure
\* path (a crash with a diagnostic, no table entry or loader invoked); the
\* token Invalid = -1 is negative and invokes table entry 0.
C4_PlaceholdersCrash ==
    \A c \in Contexts :
        /\ (Decoded(c) /\ call[c].id \in {JavaScript, Direct}) =>
              /\ call[c].outcome = "crash"
              /\ state = "Halted"
              /\ call[c].diag # "none"
              /\ call[c].invoked = NoFn
              /\ ~call[c].tableRead
        /\ (Decoded(c) /\ call[c].id = Invalid) =>
              /\ call[c].outcome = "returned"
              /\ call[c].invoked.kind = "table"
              /\ call[c].invoked.index = 0

C4_Witness ==
    \E c1, c2 \in Contexts :
        /\ Decoded(c1) /\ call[c1].id = Invalid /\ call[c1].outcome = "returned"
        /\ Decoded(c2) /\ call[c2].id = Direct /\ call[c2].outcome = "crash"

\* C5: a call on an integer token either returns the result of exactly one
\* invoked table entry or loader, unchanged, or halts the process; it never
\* returns a value the invoked native function did not produce.
C5_ReturnsNativeResultOrHalts ==
    \A c \in Contexts :
        (call[c].outcome # "idle" /\ isInt32(call[c].arg)) =>
            \/ /\ call[c].outcome = "returned"
               /\ \/ /\ call[c].invoked.kind = "table"
                     /\ call[c].invoked.index + 1 \in DOMAIN table
                     /\ call[c].ret =
                          encode(NativeCall(table[call[c].invoked.index + 1]))
                  \/ /\ call[c].invoked.kind = "loader"
                     /\ call[c].ret = LoaderCall(call[c].invoked.loader)
            \/ /\ call[c].outcome \in Halting
               /\ state = "Halted"
               /\ call[c].invoked = NoFn

\* C6 as stated: the diagnostic of a halt is determined by the kind of the
\* invalid token: a negative one yields the code-generator message, a
\* non-negative one the internal-handle message.
C6_DiagnosticByTokenKind ==
    \A c \in Contexts :
        (Decoded(c) /\ call[c].outcome \in Halting) =>
            /\ call[c].id < 0 => call[c].diag = "mistake in the code generator"
            /\ call[c].id >= 0 =>
                 call[c].diag = "bug in Bun or handle to internal code"

\* C6 amended: the diagnostic of a halt is determined by the build: only a
\* non-negative token that is no dispatched tag reaches it, a debug build
\* emits the code-generator message and a release build the internal-handle
\* message; a negative token past the table faults with no diagnostic.
C6_DiagnosticByBuild ==
    \A c \in Contexts :
        /\ (Decoded(c) /\ call[c].outcome = "crash") =>
              /\ call[c].id >= 0
              /\ call[c].id \notin {Blob, File, Bytes}
              /\ build = "debug" =>
                   call[c].diag = "mistake in the code generator"
              /\ build = "release" =>
                   call[c].diag = "bug in Bun or handle to internal code"
        /\ (Decoded(c) /\ call[c].outcome \in Halting /\ call[c].id < 0) =>
              call[c].diag = "none"

C6_Witness ==
    /\ build = "release"
    /\ \E c \in Contexts :
          Decoded(c) /\ call[c].outcome = "crash" /\ call[c].id = JavaScript

\* C7: Halted is terminal: once a dispatch has halted the process, the state
\* stays Halted and no later call invokes anything or returns a value.
C7_HaltedIsTerminal == [][state = "Halted" => UNCHANGED vars]_vars

C7_Witness ==
    /\ state = "Halted"
    /\ \E c \in Contexts : call[c].outcome = "crash"

\* C8: two dispatches of the same valid token, whatever other dispatches
\* happen between them, invoke the same native function and return the same
\* result.
C8_SameTokenSameResult ==
    \A c1, c2 \in Contexts :
        (/\ Decoded(c1) /\ Decoded(c2)
         /\ call[c1].id = call[c2].id
         /\ ValidToken(table, call[c1].id)) =>
            /\ call[c1].outcome = "returned"
            /\ call[c1].invoked = call[c2].invoked
            /\ call[c1].ret = call[c2].ret

C8_Witness ==
    \E c1, c2 \in Contexts :
        /\ c1 # c2
        /\ Decoded(c1) /\ Decoded(c2)
        /\ call[c1].id = -2 /\ call[c2].id = -2
        /\ call[c1].invoked.kind = "table" /\ call[c2].invoked.kind = "table"

\* C9: no dispatch, returning or halting, from any context, changes the
\* generated pointer table.
C9_TableNeverChanges == [][table' = table]_vars

C9_Witness ==
    /\ Len(table) > 1
    /\ state = "Halted"
    /\ \E c \in Contexts : call[c].outcome = "returned" /\ call[c].tableRead

\* C10: in a debug build a call whose argument is no Int32 fails the
\* assertion before the token is decoded and before anything is invoked; in
\* a release build the check is skipped and the argument is decoded as an
\* integer.
C10_ShapeCheckByBuild ==
    \A c \in Contexts :
        (call[c].outcome # "idle" /\ ~isInt32(call[c].arg)) =>
            /\ build = "debug" =>
                 /\ call[c].outcome = "assertion"
                 /\ state = "Halted"
                 /\ ~call[c].decoded
                 /\ ~call[c].tableRead
                 /\ call[c].invoked = NoFn
            /\ build = "release" =>
                 /\ call[c].outcome # "assertion"
                 /\ call[c].decoded
                 /\ call[c].id \in Tokens

C10_Witness ==
    /\ build = "debug"
    /\ \E c \in Contexts :
          call[c].arg = NotInt32Value /\ call[c].outcome = "assertion"

====
